---- MODULE Spec2Model ----
(***************************************************************************)
(* Model of backend/src/main.rs: the HackerNews fan-out handlers           *)
(* (get_story_comments, get_top_stories) and the event relay of            *)
(* generate_stream.                                                        *)
(*                                                                         *)
(* Encodings used throughout:                                              *)
(*   Option<T>   : <<>> is None, <<x>> is Some(x)                           *)
(*   Result<T,E> : [ok |-> TRUE, val |-> x] or [ok |-> FALSE, err |-> e]    *)
(***************************************************************************)
EXTENDS Integers, Sequences, FiniteSets, TLC

\* ------------------------------------------------------------------ bounds
MaxKids == 4
MaxTopLen == 52
MaxLines == 3

\* ------------------------------------------------------- Option helpers
None == <<>>
Some(x) == <<x>>
is_some(o) == o # <<>>
unwrap(o) == o[1]

RECURSIVE FilterSeq(_, _)
\* Iterator::filter(..).collect() over a Vec, with the retained positions
\* given as a set of indices: keeps the retained elements in their order.
FilterSeq(s, keep) ==
    IF s = <<>> THEN <<>>
    ELSE LET n == Len(s)
             front == FilterSeq(SubSeq(s, 1, n - 1), keep)
         IN IF n \in keep THEN Append(front, s[n]) ELSE front

Min(a, b) == IF a <= b THEN a ELSE b

VARIABLES
    route,        \* which route of the Router the request went to
    upstreamItem, \* upstream GET item/<id>.json : id -> response
    upstreamTop,  \* upstream GET topstories.json : Result<Vec<u32>>
    cpc,          \* get_story_comments: position in the handler
    rootId,       \* get_story_comments: the Path(id) parameter
    story,        \* get_story_comments: the fetched root HNStory (Option)
    childIssued,  \* child ids for which get_comment was started, in order
    inflight,     \* positions of the kids list whose fetch is still pending
    slots,        \* position -> result of the completed child fetch
    lastDone,     \* position of the child fetch that completed most recently (0: none)
    cResult,      \* get_story_comments: the handler's return value (Option)
    tpc,          \* get_top_stories: position in the handler
    topIssued,    \* story ids for which get_story was started, in order
    tResult,      \* get_top_stories: the handler's return value (Option)
    apiKeySet,    \* generate_stream: ALCHEMYST_API_KEY is non-empty
    upstreamChat, \* upstream POST chat/generate/stream : its response
    gpc,          \* generate_stream: position in the handler and its stream
    response_text,\* generate_stream: the body read from the upstream
    lines,        \* stream block: response_text.lines().collect()
    lineIdx,      \* stream block: number of lines the for loop has taken
    stopped,      \* stream block: the loop was left by break
    events,       \* the data strings of the events yielded so far
    origin,       \* per yielded event, the line that yielded it (0: after the loop)
    gResult,      \* generate_stream: the handler's return value (Option)
    log           \* the finished relay calls so far: [text, events] of each

aggVars == <<upstreamItem, upstreamTop, cpc, rootId, story, childIssued,
             inflight, slots, lastDone, cResult>>
topVars == <<tpc, topIssued, tResult>>
genVars == <<apiKeySet, upstreamChat, gpc, response_text, lines, lineIdx, stopped,
             events, origin, gResult, log>>
vars == <<route, upstreamItem, upstreamTop, cpc, rootId, story, childIssued,
          inflight, slots, lastDone, cResult, tpc, topIssued, tResult,
          apiKeySet, upstreamChat, gpc, response_text, lines, lineIdx, stopped,
          events, origin, gResult, log>>

\* -------------------------------------------------------- upstream world
RootIdent == 100
ChildIds == 1..MaxKids
Texts == {None, Some(""), Some("a"), Some("b")}

Ascending(n) == [p \in 1..n |-> p]
Descending(n) == [p \in 1..n |-> n + 1 - p]
KidLists == {Ascending(n) : n \in 0..MaxKids} \cup {Descending(n) : n \in 0..MaxKids}

\* One upstream item: ok = FALSE is a transport or deserialization failure.
ItemOk(title, text, kids) == [ok |-> TRUE, title |-> title, text |-> text, kids |-> kids]
ItemFail == [ok |-> FALSE, title |-> None, text |-> None, kids |-> None]

\* ---------------------------------------------------------- HNClient
\* get_story: Ok(HNStory) with the id asked for, or the transport error.
get_story(id) ==
    IF upstreamItem[id].ok
    THEN [ok |-> TRUE,
          val |-> [id |-> id, title |-> upstreamItem[id].title,
                   kids |-> upstreamItem[id].kids]]
    ELSE [ok |-> FALSE, err |-> id]

\* get_comment: Ok(HNComment) or the transport error.
get_comment(id) ==
    IF upstreamItem[id].ok
    THEN [ok |-> TRUE,
          val |-> [id |-> id, text |-> upstreamItem[id].text]]
    ELSE [ok |-> FALSE, err |-> id]

\* The filter closure of get_comments_for_story: |c| c.text.is_some()
comment_filter(c) == is_some(c.text)

story_filter_some_only(s) == is_some(s.title)
\* The filter closure of get_top_stories:
\* |story| story.title.is_some() && !story.title.unwrap().is_empty()
story_filter(s) == is_some(s.title) /\ unwrap(s.title) # ""

\* ------------------------------------------------- handler return values
\* Every return value is [status, error, id, body]: Ok(AxumJson(body)) has
\* status 200 and no error text; Err((status, ApiError{error})) has no body
\* (id is the argument of the format! string, 0 when there is none).
OkJson(body) == [status |-> 200, error |-> "", id |-> 0, body |-> body]
ApiErr(status, error, id) == [status |-> status, error |-> error, id |-> id, body |-> <<>>]
RootFetchFailed_as500(id) == ApiErr(500, "Failed to fetch comments for story {}", id)
RootFetchFailed(id) == ApiErr(404, "Story {} not found", id)
ChildFetchFailed(id) == ApiErr(500, "Failed to fetch comments for story {}", id)
SourceUnavailable == ApiErr(500, "Failed to fetch top stories", 0)
BatchFetchFailed == ApiErr(500, "Failed to fetch story details", 0)

\* ------------------------------------------------- get_story_comments
\* The kids list of the fetched root (only read once story is Some).
Kids == unwrap(unwrap(story).kids)

\* kids.iter().map(|&id| self.get_comment(id)).collect(): the ids a
\* get_comment future is created for, one per entry, in order.
comment_futures_with_root(kids) == <<rootId>> \o kids
comment_futures_limited(kids) == SubSeq(kids, 1, IF Len(kids) < 2 THEN Len(kids) ELSE 2)
comment_futures(kids) == kids

\* Handler entered: client.get_story(id) is awaited.
CommentsStart ==
    /\ route = "comments"
    /\ cpc = "idle"
    /\ cpc' = "root"
    /\ UNCHANGED <<route, upstreamItem, upstreamTop, rootId, story, childIssued,
                   inflight, slots, lastDone, cResult, topVars, genVars>>

\* The root fetch completes. Err: the NOT_FOUND arm. Ok: get_comments_for_story
\* is entered; with kids = None it returns Ok(vec![]) at once, otherwise one
\* get_comment future per entry of kids is created and try_join_all awaited.
RootDone ==
    /\ cpc = "root"
    /\ LET r == get_story(rootId) IN
       IF ~r.ok
       THEN /\ cResult' = Some(RootFetchFailed(rootId))
            /\ cpc' = "done"
            /\ UNCHANGED <<story, childIssued, inflight, slots>>
       ELSE /\ story' = Some(r.val)
            /\ IF ~is_some(r.val.kids)
               THEN /\ cResult' = Some(OkJson(<<>>))
                    /\ cpc' = "done"
                    /\ UNCHANGED <<childIssued, inflight, slots>>
               ELSE /\ childIssued' = comment_futures(unwrap(r.val.kids))
                    /\ inflight' = 1..Len(comment_futures(unwrap(r.val.kids)))
                    /\ slots' = [p \in 1..Len(comment_futures(unwrap(r.val.kids))) |-> None]
                    /\ cpc' = "join"
                    /\ UNCHANGED cResult
    /\ UNCHANGED <<route, upstreamItem, upstreamTop, rootId, lastDone, topVars, genVars>>

\* The completed results are pushed in completion order, as a collection fed
\* by FuturesUnordered would be, instead of each future owning its slot.
ChildDone_push(p) ==
    /\ cpc = "join"
    /\ p \in inflight
    /\ LET free == CHOOSE q \in DOMAIN slots :
                      /\ ~is_some(slots[q])
                      /\ \A r \in DOMAIN slots : r < q => is_some(slots[r])
       IN slots' = [slots EXCEPT ![free] = Some(get_comment(childIssued[p]))]
    /\ inflight' = inflight \ {p}
    /\ lastDone' = p
    /\ UNCHANGED <<route, upstreamItem, upstreamTop, cpc, rootId, story,
                   childIssued, cResult, topVars, genVars>>

\* One pending child fetch completes and fills its own slot.
ChildDone(p) ==
    /\ cpc = "join"
    /\ p \in inflight
    /\ slots' = [slots EXCEPT ![p] = Some(get_comment(childIssued[p]))]
    /\ inflight' = inflight \ {p}
    /\ lastDone' = p
    /\ UNCHANGED <<route, upstreamItem, upstreamTop, cpc, rootId, story,
                   childIssued, cResult, topVars, genVars>>

FailedSlots == {p \in DOMAIN slots : is_some(slots[p]) /\ ~unwrap(slots[p]).ok}

\* The value get_comments_for_story returns once every slot is Ok:
\* comments.into_iter().filter(|c| c.text.is_some()).collect()
FilteredComments ==
    LET comments == [p \in DOMAIN slots |-> unwrap(slots[p]).val]
    IN FilterSeq(comments, {p \in DOMAIN comments : comment_filter(comments[p])})

\* join_all in place of try_join_all: every fetch is waited for and the
\* comments that arrived are returned.
JoinPoll_partial ==
    /\ cpc = "join"
    /\ inflight = {}
    /\ LET got == [p \in DOMAIN slots |->
                    IF unwrap(slots[p]).ok THEN unwrap(slots[p]).val
                    ELSE [id |-> 0, text |-> None]]
       IN cResult' = Some(OkJson(FilterSeq(got,
              {p \in DOMAIN got : unwrap(slots[p]).ok /\ comment_filter(got[p])})))
    /\ cpc' = "done"
    /\ UNCHANGED <<route, upstreamItem, upstreamTop, rootId, story, childIssued,
                   inflight, slots, lastDone, topVars, genVars>>

\* try_join_all is polled: a completed Err makes `?` return it (the pending
\* siblings are dropped) and the handler answers INTERNAL_SERVER_ERROR; with
\* every slot Ok the filtered comments are returned; otherwise it stays pending.
JoinPoll ==
    /\ cpc = "join"
    /\ \/ /\ FailedSlots # {}
          /\ cResult' = Some(ChildFetchFailed(rootId))
          /\ inflight' = {}
       \/ /\ FailedSlots = {}
          /\ inflight = {}
          /\ cResult' = Some(OkJson(FilteredComments))
          /\ UNCHANGED inflight
    /\ cpc' = "done"
    /\ UNCHANGED <<route, upstreamItem, upstreamTop, rootId, story, childIssued,
                   slots, lastDone, topVars, genVars>>

\* ---------------------------------------------------- get_top_stories
TopLimit == 50

limited_ids_unclamped(story_ids) == story_ids
\* let limited_ids = &story_ids[..std::cmp::min(50, story_ids.len())];
limited_ids(story_ids) == SubSeq(story_ids, 1, Min(TopLimit, Len(story_ids)))

\* Handler entered: client.get_top_stories() is awaited.
TopStart ==
    /\ route = "top"
    /\ tpc = "idle"
    /\ tpc' = "list"
    /\ UNCHANGED <<route, aggVars, topIssued, tResult, genVars>>

\* The id-list fetch completes. Err: the outer Err arm. Ok: get_stories_batch
\* creates one get_story future per limited id and awaits try_join_all.
TopListDone ==
    /\ tpc = "list"
    /\ IF ~upstreamTop.ok
       THEN /\ tResult' = Some(SourceUnavailable)
            /\ tpc' = "done"
            /\ UNCHANGED topIssued
       ELSE /\ topIssued' = limited_ids(upstreamTop.val)
            /\ tpc' = "batch"
            /\ UNCHANGED tResult
    /\ UNCHANGED <<route, aggVars, genVars>>

\* get_stories_batch resolves: Err if a fetch of the batch failed, else the
\* stories in id order, which the handler filters by title.
TopBatchJoin ==
    /\ tpc = "batch"
    /\ LET results == [p \in 1..Len(topIssued) |-> get_story(topIssued[p])]
           stories == [p \in 1..Len(topIssued) |-> results[p].val]
       IN IF \E p \in 1..Len(topIssued) : ~results[p].ok
          THEN tResult' = Some(BatchFetchFailed)
          ELSE tResult' = Some(OkJson(
                   FilterSeq(stories, {p \in 1..Len(topIssued) : story_filter(stories[p])})))
    /\ tpc' = "done"
    /\ UNCHANGED <<route, aggVars, topIssued, genVars>>

\* ------------------------------------------------------ text and JSON
\* A text is a sequence of tokens [k, v]; k names a run of characters that
\* the code never splits, v holds the members of an object literal, each
\* <<key, value type, value text>> in the order written.
Tok(k) == [k |-> k, v |-> <<>>]
WS == Tok(" ")
NL == Tok("\n")
DataColon == Tok("data:")
DoneTok == Tok("[DONE]")
BadTok == Tok("{not valid json")
CommentTok == Tok(": keep-alive")
NumTok == Tok("5")
Obj(members) == [k |-> "object", v |-> members]

RECURSIVE str_lines(_)
\* str::lines(): split at each "\n"; a final line needs no terminator and
\* the text after the last terminator is a line only if it is non-empty.
\* (The texts here hold no "\r", which lines() would drop before a "\n".)
str_lines(text) ==
    IF text = <<>> THEN <<>>
    ELSE LET brk == {i \in 1..Len(text) : text[i] = NL} IN
         IF brk = {} THEN <<text>>
         ELSE LET i == CHOOSE j \in brk : \A h \in brk : j <= h
              IN <<SubSeq(text, 1, i - 1)>> \o str_lines(SubSeq(text, i + 1, Len(text)))

\* str::trim(): drop leading and trailing whitespace.
trim(s) ==
    LET solid == {i \in 1..Len(s) : s[i] # WS} IN
    IF solid = {} THEN <<>>
    ELSE SubSeq(s, CHOOSE i \in solid : \A h \in solid : i <= h,
                   CHOOSE i \in solid : \A h \in solid : i >= h)

\* line.starts_with("data: ")
starts_with_data(line) == Len(line) >= 2 /\ line[1] = DataColon /\ line[2] = WS

\* &line[6..]
after_prefix(line) == SubSeq(line, 3, Len(line))

\* serde_json::Value: an object is a map from key to <<value type, value text>>.
ObjectValue(members) ==
    LET keys == {members[i][1] : i \in 1..Len(members)}
        last(key) == CHOOSE i \in 1..Len(members) :
                        /\ members[i][1] = key
                        /\ \A h \in 1..Len(members) : members[h][1] = key => h <= i
    IN [kind |-> "object",
        map |-> [key \in keys |-> <<members[last(key)][2], members[last(key)][3]>>]]
NumberValue == [kind |-> "number", map |-> <<>>]

\* serde_json::from_str::<Value>(data): whitespace around the value is
\* skipped, a repeated key keeps its last value, anything else is an Err
\* carrying serde_json's description.
from_str(data) ==
    LET t == trim(data) IN
    IF t = <<>> THEN [ok |-> FALSE, err |-> "EOF while parsing a value"]
    ELSE IF t[1] = BadTok THEN [ok |-> FALSE, err |-> "key must be a string"]
    ELSE IF t[1].k \notin {"object", "5"} THEN [ok |-> FALSE, err |-> "expected value"]
    ELSE IF Len(t) > 1 THEN [ok |-> FALSE, err |-> "trailing characters"]
    ELSE IF t[1].k = "object" THEN [ok |-> TRUE, val |-> ObjectValue(t[1].v)]
    ELSE [ok |-> TRUE, val |-> NumberValue]

\* Value::get(key)
json_get(value, key) ==
    IF value.kind = "object" /\ key \in DOMAIN value.map THEN Some(value.map[key]) ELSE None

\* Value::as_str()
as_str(x) == IF x[1] = "str" THEN Some(x[2]) ELSE None

\* The keys that occur, in the order serde_json's map serializes them.
KeyOrder == <<"content", "type">>

\* serde_json::to_string(&Value)
to_string(value) ==
    IF value.kind = "number" THEN <<NumTok>>
    ELSE LET all == [i \in 1..Len(KeyOrder) |->
                        <<KeyOrder[i]>> \o (IF KeyOrder[i] \in DOMAIN value.map
                                            THEN value.map[KeyOrder[i]] ELSE <<"", "">>)]
         IN <<Obj(FilterSeq(all, {i \in 1..Len(KeyOrder) : KeyOrder[i] \in DOMAIN value.map}))>>

\* format!("Error parsing stream data: {}", e)
error_content(e) ==
    CASE e = "EOF while parsing a value" -> "Error parsing stream data: EOF while parsing a value"
      [] e = "key must be a string" -> "Error parsing stream data: key must be a string"
      [] e = "expected value" -> "Error parsing stream data: expected value"
      [] OTHER -> "Error parsing stream data: trailing characters"

\* serde_json::to_string(&StreamingResponse { type: "thinking_update",
\* content, icon: None, error: None }): fields in declaration order.
error_response(e) ==
    <<Obj(<< <<"type", "str", "thinking_update">>, <<"content", "str", error_content(e)>> >>)>>

\* Event::default().data("[DONE]")
DoneEvent == <<DoneTok>>

\* ----------------------------------------- generate_stream: stream block
\* The arms of `match message_type` that yield only under
\* `if let Some(content) = json_data.get("content")`.
ContentTypes == {"thinking_update", "final_response", "metadata"}

\* The Ok(json_data) arm: the event yielded for a parsed value, if any.
forward(json_data) ==
    LET message_type == IF is_some(json_get(json_data, "type"))
                        THEN as_str(unwrap(json_get(json_data, "type")))
                        ELSE None
    IN IF is_some(message_type) /\ unwrap(message_type) \in ContentTypes
       THEN IF is_some(json_get(json_data, "content"))
            THEN Some(to_string(json_data))
            ELSE None
       ELSE Some(to_string(json_data))

\* The Err(e) arm: the error is sent as a thinking update and the loop goes on.
parse_failed_abort(e) == [yield |-> Some(error_response(e)), brk |-> TRUE]
parse_failed(e) == [yield |-> Some(error_response(e)), brk |-> FALSE]

\* The body of `if line.starts_with("data: ")`.
frame_arm(line) ==
    LET data == after_prefix(line) IN
    IF trim(data) = <<DoneTok>>
    THEN [yield |-> None, brk |-> TRUE]
    ELSE LET parsed == from_str(data) IN
         IF parsed.ok
         THEN [yield |-> forward(parsed.val), brk |-> FALSE]
         ELSE parse_failed(parsed.err)

\* A relay that forwards the upstream's own "data: [DONE]" line and stops.
loop_body_forward_done(raw) ==
    LET line == trim(raw) IN
    IF line = <<DataColon, WS, DoneTok>>
    THEN [yield |-> Some(DoneEvent), brk |-> TRUE]
    ELSE IF starts_with_data(line)
    THEN frame_arm(line)
    ELSE [yield |-> None, brk |-> FALSE]

\* One iteration of `for line in lines`: what it yields (Option) and
\* whether it leaves the loop by break.
loop_body_no_prefix_check(raw) ==
    LET line == trim(raw) IN
    IF line = <<>> \/ line = <<DataColon, WS, DoneTok>>
    THEN [yield |-> None, brk |-> FALSE]
    ELSE frame_arm(line)

loop_body(raw) ==
    LET line == trim(raw) IN
    IF line = <<>> \/ line = <<DataColon, WS, DoneTok>>
    THEN [yield |-> None, brk |-> FALSE]
    ELSE IF starts_with_data(line)
    THEN frame_arm(line)
    ELSE [yield |-> None, brk |-> FALSE]

\* `yield`: the stream hands out its events in the order they are yielded.
yield_front(seq, x) == <<x>> \o seq
yield_to(seq, x) == Append(seq, x)

is_success_any(status) == TRUE
\* Status of the upstream response; StatusCode::is_success is 200..=299.
is_success(status) == status >= 200 /\ status <= 299

\* Handler entered: the api key check, then the request is sent and awaited.
GenStart ==
    /\ route = "stream"
    /\ gpc = "idle"
    /\ IF ~apiKeySet
       THEN /\ gResult' = Some(ApiErr(500, "ALCHEMYST_API_KEY is not configured", 0))
            /\ gpc' = "failed"
       ELSE /\ gpc' = "sent"
            /\ UNCHANGED gResult
    /\ UNCHANGED <<route, aggVars, topVars, apiKeySet, upstreamChat, response_text,
                   lines, lineIdx, stopped, events, origin, log>>

\* send().await completes: a transport error is BAD_GATEWAY, a non-success
\* status is answered with that status, otherwise the body is awaited.
GenResponse ==
    /\ gpc = "sent"
    /\ IF ~upstreamChat.sent
       THEN /\ gResult' = Some(ApiErr(502, "Upstream request failed", 0))
            /\ gpc' = "failed"
       ELSE IF ~is_success(upstreamChat.status)
       THEN /\ gResult' = Some(ApiErr(upstreamChat.status, "Upstream API error: {}", 0))
            /\ gpc' = "failed"
       ELSE /\ gpc' = "body"
            /\ UNCHANGED gResult
    /\ UNCHANGED <<route, aggVars, topVars, apiKeySet, upstreamChat, response_text,
                   lines, lineIdx, stopped, events, origin, log>>

\* response.text().await completes: on Ok the handler returns the Sse
\* response around the stream, whose first step splits the text into lines.
GenBody ==
    /\ gpc = "body"
    /\ IF ~upstreamChat.readable
       THEN /\ gResult' = Some(ApiErr(500, "Failed to read response", 0))
            /\ gpc' = "failed"
            /\ UNCHANGED <<response_text, lines>>
       ELSE /\ response_text' = upstreamChat.body
            /\ lines' = str_lines(upstreamChat.body)
            /\ gResult' = Some(OkJson(<<>>))
            /\ gpc' = "stream"
    /\ UNCHANGED <<route, aggVars, topVars, apiKeySet, upstreamChat,
                   lineIdx, stopped, events, origin, log>>

\* The stream runs one iteration of the for loop.
StreamLine ==
    /\ gpc = "stream"
    /\ ~stopped
    /\ lineIdx < Len(lines)
    /\ LET step == loop_body(lines[lineIdx + 1]) IN
       /\ lineIdx' = lineIdx + 1
       /\ stopped' = step.brk
       /\ IF is_some(step.yield)
          THEN /\ events' = yield_to(events, unwrap(step.yield))
               /\ origin' = yield_to(origin, lineIdx + 1)
          ELSE UNCHANGED <<events, origin>>
    /\ UNCHANGED <<route, aggVars, topVars, apiKeySet, upstreamChat, gpc,
                   response_text, lines, gResult, log>>

\* After the loop: the completion signal is yielded and the stream ends.
StreamDone ==
    /\ gpc = "stream"
    /\ stopped \/ lineIdx = Len(lines)
    /\ events' = yield_to(events, DoneEvent)
    /\ origin' = yield_to(origin, 0)
    /\ gpc' = "done"
    /\ UNCHANGED <<route, aggVars, topVars, apiKeySet, upstreamChat,
                   response_text, lines, lineIdx, stopped, gResult, log>>

\* ------------------------------------------------- a further request
MaxCalls == 3
MaxCallLines == 2

\* A text whose loop is left by break after one event.
OtherBody ==
    <<DataColon, WS, Obj(<< <<"type", "str", "tool_call">> >>), NL,
      DataColon, WS, WS, DoneTok, NL>>

\* The texts the upstream may answer the next request with: one it has
\* answered with before, or OtherBody.
NextTexts == {log[k].text : k \in 1..Len(log)} \cup {response_text, OtherBody}

\* As NewCall, with `stopped` kept across requests as a static would be.
NewCall_static_stopped ==
    /\ route = "stream"
    /\ gpc = "done"
    /\ Len(log) + 1 < MaxCalls
    /\ log' = Append(log, [text |-> response_text, events |-> events])
    /\ \E b \in NextTexts : upstreamChat' = [upstreamChat EXCEPT !.body = b]
    /\ gpc' = "idle"
    /\ response_text' = <<>>
    /\ lines' = <<>>
    /\ lineIdx' = 0
    /\ events' = <<>>
    /\ origin' = <<>>
    /\ gResult' = None
    /\ UNCHANGED <<route, aggVars, topVars, apiKeySet, stopped>>

\* The Router hands the next POST to generate_stream: every local of the
\* handler and of its stream block is created anew, nothing of the finished
\* call is carried over, and the upstream answers this request on its own.
NewCall ==
    /\ route = "stream"
    /\ gpc = "done"
    /\ Len(log) + 1 < MaxCalls
    /\ log' = Append(log, [text |-> response_text, events |-> events])
    /\ \E b \in NextTexts : upstreamChat' = [upstreamChat EXCEPT !.body = b]
    /\ gpc' = "idle"
    /\ response_text' = <<>>
    /\ lines' = <<>>
    /\ lineIdx' = 0
    /\ stopped' = FALSE
    /\ events' = <<>>
    /\ origin' = <<>>
    /\ gResult' = None
    /\ UNCHANGED <<route, aggVars, topVars, apiKeySet>>

\* ------------------------------------------------------------- Init
ChildResponses == {ItemFail} \cup {ItemOk(None, t, None) : t \in Texts}
RootResponses ==
    {ItemFail} \cup {ItemOk(Some("t"), None, k) : k \in {None} \cup {Some(l) : l \in KidLists}}

Listed(root) ==
    IF root.ok /\ is_some(root.kids)
    THEN {unwrap(root.kids)[p] : p \in 1..Len(unwrap(root.kids))}
    ELSE {}

\* A request to /api/stories/:id/comments; the upstream holds the root and
\* the children it lists (an id it does not list is not an item).
InitComments ==
    /\ route = "comments"
    /\ rootId = RootIdent
    /\ \E root \in RootResponses, resp \in [ChildIds -> ChildResponses] :
          /\ \A c \in ChildIds \ Listed(root) : resp[c] = ItemFail
          /\ upstreamItem = [i \in ChildIds \cup {RootIdent} |->
                                IF i = RootIdent THEN root ELSE resp[i]]
    /\ upstreamTop = [ok |-> FALSE, err |-> 0]

TopLists == {Ascending(n) : n \in 0..MaxTopLen} \cup {Descending(n) : n \in 0..MaxTopLen}

\* Title of story id under pattern pat: 1 every story titled, 2 a mix of
\* absent, empty and present titles, 3 no story titled.
PatternTitle(pat, id) ==
    CASE pat = 1 -> Some("t")
      [] pat = 2 -> IF id % 3 = 0 THEN None ELSE IF id % 3 = 1 THEN Some("") ELSE Some("t")
      [] OTHER -> None

\* A request to /api/stories; the upstream holds the id list and the stories.
InitTop ==
    /\ route = "top"
    /\ rootId = 0
    /\ upstreamTop \in {[ok |-> FALSE, err |-> 0]} \cup {[ok |-> TRUE, val |-> l] : l \in TopLists}
    /\ \E failId \in 0..MaxTopLen, pat \in 1..3 :
          upstreamItem = [i \in 1..MaxTopLen |->
                            IF i = failId THEN ItemFail
                            ELSE ItemOk(PatternTitle(pat, i), None, None)]

\* The upstream lines the relay is run on.
TypeContent(t) == Obj(<< <<"type", "str", t>>, <<"content", "str", "ok">> >>)
TypeOnly(t) == Obj(<< <<"type", "str", t>> >>)
Frame(body) == <<DataColon, WS>> \o body
LineSet ==
    { <<>>,
      <<CommentTok>>,
      <<DataColon, DoneTok>>,
      Frame(<<DoneTok>>),
      Frame(<<WS, DoneTok>>),
      Frame(<<BadTok>>),
      Frame(<<NumTok>>),
      Frame(<<TypeContent("final_response")>>),
      Frame(<<TypeOnly("metadata")>>),
      Frame(<<TypeOnly("tool_call")>>),
      Frame(<<Obj(<< <<"content", "str", "ok">> >>)>>),
      Frame(<<Obj(<< <<"type", "num", "5">> >>)>>),
      <<WS>> \o Frame(<<Obj(<< <<"content", "num", "5">>, <<"type", "str", "thinking_update">> >>), WS>>) }

RECURSIVE join(_)
\* The lines of ls, each followed by "\n".
join(ls) == IF ls = <<>> THEN <<>> ELSE Head(ls) \o <<NL>> \o join(Tail(ls))

\* The bodies an upstream can answer with: up to MaxLines lines, the last
\* one terminated or not.
Bodies ==
    LET seqs == UNION {[1..n -> LineSet] : n \in 0..MaxLines} IN
    {join(ls) : ls \in seqs}
      \cup {SubSeq(join(ls), 1, Len(join(ls)) - 1) : ls \in seqs \ {<<>>}}

FailureBody == Frame(<<TypeContent("final_response")>>) \o <<NL>> \o Frame(<<DoneTok>>)

\* A request to /api/v1/chat/generate/stream.
InitStream ==
    /\ route = "stream"
    /\ rootId = 0
    /\ upstreamItem = <<>>
    /\ upstreamTop = [ok |-> FALSE, err |-> 0]
    /\ \/ /\ apiKeySet = TRUE
          /\ upstreamChat \in
               {[sent |-> TRUE, status |-> 200, readable |-> TRUE, body |-> b] : b \in Bodies}
       \/ /\ apiKeySet \in BOOLEAN
          /\ upstreamChat \in
               {[sent |-> s, status |-> st, readable |-> r, body |-> FailureBody] :
                    s \in BOOLEAN, st \in {200, 503}, r \in BOOLEAN}

\* Every handler is at its entry and has produced nothing.
Idle ==
    /\ cpc = "idle"
    /\ story = None
    /\ childIssued = <<>>
    /\ inflight = {}
    /\ slots = <<>>
    /\ lastDone = 0
    /\ cResult = None
    /\ tpc = "idle"
    /\ topIssued = <<>>
    /\ tResult = None
    /\ gpc = "idle"
    /\ response_text = <<>>
    /\ lines = <<>>
    /\ lineIdx = 0
    /\ stopped = FALSE
    /\ events = <<>>
    /\ origin = <<>>
    /\ gResult = None
    /\ log = <<>>

InitFetch ==
    /\ InitComments \/ InitTop
    /\ apiKeySet = FALSE
    /\ upstreamChat = <<>>
    /\ Idle

InitRelay == InitStream /\ Idle

\* The first of several requests: its upstream answers with a text of up to
\* MaxCallLines lines, or fails as in InitStream.
CallBodies == {join(ls) : ls \in UNION {[1..n -> LineSet] : n \in 0..MaxCallLines}}
InitStreamAgain ==
    /\ route = "stream"
    /\ rootId = 0
    /\ upstreamItem = <<>>
    /\ upstreamTop = [ok |-> FALSE, err |-> 0]
    /\ \/ /\ apiKeySet = TRUE
          /\ upstreamChat \in
               {[sent |-> TRUE, status |-> 200, readable |-> TRUE, body |-> b] : b \in CallBodies}
       \/ /\ apiKeySet \in BOOLEAN
          /\ upstreamChat \in
               {[sent |-> s, status |-> st, readable |-> r, body |-> FailureBody] :
                    s \in BOOLEAN, st \in {200, 503}, r \in BOOLEAN}
InitRelayAgain == InitStreamAgain /\ Idle

Init == InitFetch \/ InitRelay

NextFetch ==
    \/ CommentsStart
    \/ RootDone
    \/ \E p \in 1..MaxKids + 1 : ChildDone(p)
    \/ JoinPoll
    \/ TopStart
    \/ TopListDone
    \/ TopBatchJoin

NextRelay ==
    \/ GenStart
    \/ GenResponse
    \/ GenBody
    \/ StreamLine
    \/ StreamDone

NextRelayAgain ==
    \/ GenStart
    \/ GenResponse
    \/ GenBody
    \/ StreamLine
    \/ StreamDone
    \/ NewCall

Next == NextFetch \/ NextRelay \/ NewCall

\* The two HackerNews handlers.
SpecFetch == InitFetch /\ [][NextFetch]_vars

\* The generate_stream handler and its stream.
SpecRelay == InitRelay /\ [][NextRelay]_vars

\* The generate_stream handler answering several requests, one after another.
SpecRelayAgain == InitRelayAgain /\ [][NextRelayAgain]_vars

Spec == Init /\ [][Next]_vars

\* -----------------------------------------------------------------
\* Properties of the fetch handlers (checked under SpecFetch)
\* -----------------------------------------------------------------

\* The root was fetched and lists the children in HasKids.
RootFetched == is_some(story)
HasKids == RootFetched /\ is_some(unwrap(story).kids)
NKids == IF HasKids THEN Len(Kids) ELSE 0

\* Some child the root lists cannot be fetched.
AnyChildFails == HasKids /\ \E p \in 1..Len(Kids) : ~upstreamItem[Kids[p]].ok

\* C1: all-or-nothing join. If one of the N >= 1 child fetches of a root
\* fails, the call never returns a list (neither full nor partial): it has
\* no result until it ends, and it ends in ChildFetchFailed, whichever
\* other fetches completed, succeeded or were still pending.
AllOrNothingJoin ==
    AnyChildFails =>
        /\ cResult \in {None, Some(ChildFetchFailed(rootId))}
        /\ cpc = "done" => cResult = Some(ChildFetchFailed(rootId))

\* C1 witness: the call ended in ChildFetchFailed with one child fetched
\* successfully, one failed and one still pending when the join resolved.
AllOrNothingJoinWitness ==
    /\ cpc = "done"
    /\ cResult = Some(ChildFetchFailed(rootId))
    /\ \E p, q, r \in DOMAIN slots :
          /\ is_some(slots[p]) /\ unwrap(slots[p]).ok
          /\ is_some(slots[q]) /\ ~unwrap(slots[q]).ok
          /\ ~is_some(slots[r])

\* C2: a root whose kids list is absent or empty gives Ok with an empty
\* sequence, and no child fetch is issued at any point of the call.
NoKidsNoFetch ==
    (RootFetched /\ NKids = 0) =>
        /\ childIssued = <<>>
        /\ inflight = {}
        /\ cpc = "done" => cResult = Some(OkJson(<<>>))

\* C2 witness: a call on a root with an empty (present) kids list ended.
NoKidsNoFetchWitness ==
    /\ cpc = "done"
    /\ HasKids
    /\ Kids = <<>>
    /\ cResult = Some(OkJson(<<>>))

\* The children of the root as fetched, in kids-list order (all fetches Ok).
FetchedChildren == [p \in 1..NKids |-> get_comment(Kids[p]).val]

\* C3: when all child fetches succeed the result is exactly the fetched
\* children whose text is present and non-empty, in kids-list order.
FilterExact ==
    (cpc = "done" /\ HasKids /\ ~AnyChildFails) =>
        cResult = Some(OkJson(FilterSeq(FetchedChildren,
                      {p \in 1..NKids : /\ is_some(FetchedChildren[p].text)
                                        /\ unwrap(FetchedChildren[p].text) # ""})))

\* The id list the upstream answered with (only read when it is Ok).
TopIds == upstreamTop.val
TopPrefixLen == IF Len(TopIds) < TopLimit THEN Len(TopIds) ELSE TopLimit

\* C9: with an upstream id list of length L, get_top_stories fetches
\* exactly the first min(50, L) ids, returns at most that many stories, and
\* fails only if one of those fetches fails, never because L < 50.
TopPrefixClamp ==
    (route = "top" /\ upstreamTop.ok) =>
        /\ tpc \in {"batch", "done"} =>
              /\ Len(topIssued) = TopPrefixLen
              /\ \A p \in 1..TopPrefixLen : topIssued[p] = TopIds[p]
        /\ tpc \in {"idle", "list"} => topIssued = <<>>
        /\ tpc = "done" =>
              IF \A p \in 1..TopPrefixLen : upstreamItem[TopIds[p]].ok
              THEN /\ unwrap(tResult).status = 200
                   /\ Len(unwrap(tResult).body) <= TopPrefixLen
              ELSE tResult = Some(BatchFetchFailed)

\* C9 witness: a list longer than the limit was clamped to 50 fetches and
\* the call returned stories.
TopPrefixClampWitness ==
    /\ tpc = "done"
    /\ upstreamTop.ok
    /\ Len(TopIds) > TopLimit
    /\ TopIds[1] > TopLimit
    /\ Len(topIssued) = TopLimit
    /\ unwrap(tResult).status = 200
    /\ Len(unwrap(tResult).body) > 0

\* C10: the failing phase is reported distinctly. A failed root fetch ends
\* in RootFetchFailed with no child fetch issued, a failed child fetch ends
\* in ChildFetchFailed, a failed id-list fetch ends get_top_stories in
\* SourceUnavailable with no item fetch issued, and the three outcomes
\* differ pairwise, so each outcome names its phase.
FailurePhasesDistinct ==
    /\ RootFetchFailed(rootId) # ChildFetchFailed(rootId)
    /\ RootFetchFailed(rootId) # SourceUnavailable
    /\ ChildFetchFailed(rootId) # SourceUnavailable
    /\ (route = "comments" /\ cpc = "done") =>
          /\ cResult = Some(RootFetchFailed(rootId)) <=> ~upstreamItem[rootId].ok
          /\ cResult = Some(ChildFetchFailed(rootId)) <=> AnyChildFails
          /\ ~upstreamItem[rootId].ok => childIssued = <<>> /\ slots = <<>>
    /\ (route = "top" /\ tpc = "done") =>
          /\ tResult = Some(SourceUnavailable) <=> ~upstreamTop.ok
          /\ ~upstreamTop.ok => topIssued = <<>>

\* C10 witness: a call whose root fetch failed ended in RootFetchFailed
\* without a child fetch.
FailurePhasesDistinctWitness ==
    /\ cpc = "done"
    /\ ~upstreamItem[rootId].ok
    /\ cResult = Some(RootFetchFailed(rootId))
    /\ childIssued = <<>>

\* The stories of the fetched prefix, in id-list order (all fetches Ok).
FetchedStories == [p \in 1..TopPrefixLen |-> get_story(TopIds[p]).val]
AllStoriesFetched ==
    route = "top" /\ upstreamTop.ok /\ \A p \in 1..TopPrefixLen : upstreamItem[TopIds[p]].ok

\* C13: when the id-list fetch and every item fetch succeed, get_top_stories
\* returns exactly the stories of the fetched prefix whose title is present
\* and non-empty, in id-list order.
TopFilterExact ==
    (tpc = "done" /\ AllStoriesFetched) =>
        tResult = Some(OkJson(FilterSeq(FetchedStories,
                      {p \in 1..TopPrefixLen : /\ FetchedStories[p].title # None
                                               /\ FetchedStories[p].title # Some("")})))

\* C13 witness: a call on a descending id list returned some stories and
\* dropped one without title and one with an empty title.
TopFilterExactWitness ==
    /\ tpc = "done"
    /\ AllStoriesFetched
    /\ TopPrefixLen >= 3
    /\ TopIds[1] > TopIds[2]
    /\ Len(unwrap(tResult).body) > 0
    /\ \E p, q \in 1..TopPrefixLen :
          /\ FetchedStories[p].title = None
          /\ FetchedStories[q].title = Some("")

\* C14: fan-out protocol. No child fetch exists before the root fetch has
\* succeeded; once the join is awaited exactly one fetch per entry of the
\* kids list has been issued, in list order, whatever the child's text; a
\* fetch is either pending or has filled its slot; and a list is returned
\* only when every one of the N fetches has completed.
FanOutProtocol ==
    /\ ~RootFetched => childIssued = <<>> /\ inflight = {} /\ slots = <<>>
    /\ (HasKids /\ cpc \in {"join", "done"}) =>
          /\ childIssued = Kids
          /\ DOMAIN slots = 1..NKids
    /\ cpc = "join" => \A p \in 1..NKids : p \in inflight <=> ~is_some(slots[p])
    /\ (HasKids /\ is_some(cResult) /\ unwrap(cResult).status = 200) =>
          /\ inflight = {}
          /\ \A p \in 1..NKids : is_some(slots[p]) /\ unwrap(slots[p]).ok

\* C14 witness: all N >= 3 child fetches are in flight at once, one of them
\* for a child without text.
FanOutProtocolWitness ==
    /\ cpc = "join"
    /\ NKids >= 3
    /\ inflight = 1..NKids
    /\ \E p \in 1..NKids : upstreamItem[Kids[p]].ok /\ upstreamItem[Kids[p]].text = None

\* C15: the join is interleaving-independent. Each completed child fetch
\* holds, in the slot of its own list position, the result of the fetch for
\* that position; and when all child fetches succeed the returned sequence
\* depends on the upstream items alone, not on the order of completion: it
\* is the fetched children that passed the filter, in kids-list order.
JoinInterleavingIndependent ==
    /\ cpc = "join" =>
          \A p \in 1..NKids : is_some(slots[p]) => slots[p] = Some(get_comment(Kids[p]))
    /\ (cpc = "done" /\ HasKids /\ ~AnyChildFails) =>
          cResult = Some(OkJson(FilterSeq(FetchedChildren,
                        {p \in 1..NKids : FetchedChildren[p].text # None})))

\* C15 witness: all of three or more child fetches succeeded, the fetch for
\* the first entry of the kids list completed last, and the result keeps at
\* least two comments.
JoinInterleavingIndependentWitness ==
    /\ cpc = "done"
    /\ HasKids
    /\ ~AnyChildFails
    /\ NKids >= 3
    /\ lastDone = 1
    /\ unwrap(cResult).status = 200
    /\ Len(unwrap(cResult).body) >= 2
    /\ unwrap(cResult).body[1] # unwrap(cResult).body[2]

\* -----------------------------------------------------------------
\* Properties of the relay (checked under SpecRelay)
\* -----------------------------------------------------------------

\* The lines the stream block iterates over, and line i as the loop sees it.
Lines == lines
Trimmed(i) == trim(Lines[i])
Streaming == gpc \in {"stream", "done"}

\* Line i is the line `data: [DONE]`.
IsSentinelLine(i) == Trimmed(i) = <<DataColon, WS, DoneTok>>
\* Line i has the prefix `data: `; Data(i) is its remainder.
IsFrameLine(i) == starts_with_data(Trimmed(i))
Data(i) == after_prefix(Trimmed(i))
\* Line i has the prefix and its remainder is the done token.
IsDoneFrame(i) == IsFrameLine(i) /\ trim(Data(i)) = <<DoneTok>>
\* Line i has the prefix and its remainder parses / does not parse.
IsParsedFrame(i) == IsFrameLine(i) /\ from_str(Data(i)).ok
IsMalformedFrame(i) == IsFrameLine(i) /\ ~IsDoneFrame(i) /\ ~from_str(Data(i)).ok
\* The positions in events of the events line i yielded.
EventsOf(i) == {k \in 1..Len(origin) : origin[k] = i}

RemoveAt(seq, i) == SubSeq(seq, 1, i - 1) \o SubSeq(seq, i + 1, Len(seq))

RECURSIVE Scan(_)
\* The events the loop yields on the lines ls, by loop_body.
Scan(ls) ==
    IF ls = <<>> THEN <<>>
    ELSE LET step == loop_body(Head(ls))
             here == IF is_some(step.yield) THEN <<unwrap(step.yield)>> ELSE <<>>
         IN IF step.brk THEN here ELSE here \o Scan(Tail(ls))

\* C4: sentinel short-circuit. Once a line `data: [DONE]` has been met, no
\* later line yields an event: every event that a line yielded comes from a
\* line with no `data: [DONE]` line before it.
SentinelShortCircuit ==
    Streaming =>
        \A k \in 1..Len(origin) :
            origin[k] # 0 => \A i \in 1..(origin[k] - 1) : ~IsSentinelLine(i)

\* C5: classification is never a filter. Every line before any done frame
\* that has the prefix and whose remainder parses yields exactly one event,
\* and that event carries the parsed value, whatever its type and fields.
ClassificationNeverFilters ==
    Streaming =>
        \A i \in 1..lineIdx :
            (IsParsedFrame(i) /\ \A h \in 1..(i - 1) : ~IsDoneFrame(h)) =>
                /\ Cardinality(EventsOf(i)) = 1
                /\ \A k \in EventsOf(i) :
                      /\ from_str(events[k]).ok
                      /\ from_str(events[k]).val = from_str(Data(i)).val

\* C6: relay termination. For every text the loop takes each line at most
\* once, the stream yields at most one event per line taken plus the
\* terminal sentinel (so the output is finite), and when it has ended the
\* last event is `[DONE]` and `[DONE]` occurs exactly once; it does not
\* occur before the end.
RelayTermination ==
    /\ lineIdx <= Len(Lines)
    /\ Len(events) <= lineIdx + 1
    /\ gpc = "stream" => \A k \in 1..Len(events) : events[k] # <<DoneTok>>
    /\ gpc = "done" =>
          /\ events # <<>>
          /\ events[Len(events)] = <<DoneTok>>
          /\ Cardinality({k \in 1..Len(events) : events[k] = <<DoneTok>>}) = 1

\* C6 witness: the stream ended on a text without sentinel line whose last
\* line is a malformed frame that has no line terminator.
RelayTerminationWitness ==
    /\ gpc = "done"
    /\ Len(Lines) = MaxLines
    /\ \A i \in 1..Len(Lines) : ~IsDoneFrame(i)
    /\ IsMalformedFrame(Len(Lines))
    /\ response_text[Len(response_text)] # NL
    /\ Len(events) >= 2
    /\ events[Len(events)] = <<DoneTok>>

\* The event is a thinking_update whose content is the description of error e.
IsDiagnostic(ev, e) ==
    /\ from_str(ev).ok
    /\ json_get(from_str(ev).val, "type") = Some(<<"str", "thinking_update">>)
    /\ json_get(from_str(ev).val, "content") = Some(<<"str", error_content(e)>>)

\* C7: relay recovery. A line the loop took that has the prefix and whose
\* remainder fails to parse yields exactly one thinking_update event with
\* the parse error, does not stop the scan, and the call does not fail; the
\* rest of the output is what the relay yields on the text without that line.
RelayRecovery ==
    Streaming =>
        /\ unwrap(gResult).status = 200
        /\ \A i \in 1..lineIdx :
              IsMalformedFrame(i) =>
                  /\ Cardinality(EventsOf(i)) = 1
                  /\ \A k \in EventsOf(i) : IsDiagnostic(events[k], from_str(Data(i)).err)
                  /\ (i = lineIdx) => ~stopped
                  /\ gpc = "done" =>
                        \A k \in EventsOf(i) :
                            RemoveAt(events, k) = Scan(RemoveAt(Lines, i)) \o <<DoneEvent>>

\* C7 witness: the stream ended after a malformed frame was followed by a
\* frame that was forwarded.
RelayRecoveryWitness ==
    /\ gpc = "done"
    /\ \E i, j \in 1..lineIdx :
          /\ i < j
          /\ IsMalformedFrame(i)
          /\ IsParsedFrame(j)
          /\ EventsOf(i) # {}
          /\ EventsOf(j) # {}

\* C8: relay ordering. The events are in the order of the lines that
\* yielded them, each is the event its line yields, and the terminal
\* sentinel comes after all of them.
RelayOrdering ==
    Streaming =>
        /\ Len(origin) = Len(events)
        /\ \A k \in 1..Len(origin) :
              IF origin[k] = 0
              THEN k = Len(origin) /\ gpc = "done" /\ events[k] = DoneEvent
              ELSE /\ origin[k] \in 1..lineIdx
                   /\ loop_body(Lines[origin[k]]).yield = Some(events[k])
        /\ \A k, l \in 1..Len(origin) :
              (k < l /\ origin[l] # 0) => origin[k] < origin[l]

\* C8 witness: the stream ended with events of two different lines, a line
\* without event between them, before the terminal sentinel.
RelayOrderingWitness ==
    /\ gpc = "done"
    /\ Len(events) = 3
    /\ origin[1] = 1
    /\ origin[2] = 3
    /\ events[1] # events[2]
    /\ origin[3] = 0

\* The finished relay calls, the current one included once it has ended.
Finished ==
    IF gpc = "done" THEN Append(log, [text |-> response_text, events |-> events]) ELSE log

\* C11: relay determinism. Any two finished relay calls that ran on the same
\* text have yielded the same event sequence, whichever calls ran before or
\* between them.
RelayDeterminism ==
    \A a, b \in 1..Len(Finished) :
        Finished[a].text = Finished[b].text => Finished[a].events = Finished[b].events

\* C11 witness: a text was relayed with two or more events, then a different
\* text whose loop was left by break, then the first text again with the
\* same events.
RelayDeterminismWitness ==
    /\ gpc = "done"
    /\ Len(log) = 2
    /\ log[1].text = response_text
    /\ log[2].text = OtherBody
    /\ log[2].text # response_text
    /\ Len(events) >= 3
    /\ events[1] # events[2]
    /\ events = log[1].events

\* Line i is blank after trimming, or its trimmed text does not begin with
\* the six characters `data: `.
IsIgnorable(i) ==
    \/ Trimmed(i) = <<>>
    \/ Len(Trimmed(i)) < 2
    \/ Trimmed(i)[1] # DataColon
    \/ Trimmed(i)[2] # WS

\* Lines of that kind that no upstream text of Init holds (those hold the
\* empty line, a comment line and `data:[DONE]`): blanks only, and `data:`
\* with nothing after it.
IgnorableLines == {<<WS>>, <<DataColon>>}
InsertAt(seq, pos, l) == SubSeq(seq, 1, pos) \o <<l>> \o SubSeq(seq, pos + 1, Len(seq))

\* C12: ignored lines leave the output unchanged. A line that is blank after
\* trimming or lacks the prefix `data: ` yields no event (so no diagnostic
\* either) and does not end the loop; and the output of a finished call, a
\* 200 response, is the output for its text, for the text without that line
\* and for the text with one more such line at any position. (A text with
\* such a line is the text without it after an insertion, so the removals
\* cover the insertions of the lines that occur in the upstream texts.)
IgnoredLinesNeutral ==
    /\ Streaming =>
          \A i \in 1..lineIdx :
              IsIgnorable(i) => EventsOf(i) = {} /\ (i = lineIdx => ~stopped)
    /\ gpc = "done" =>
          /\ unwrap(gResult).status = 200
          /\ events = Scan(Lines) \o <<DoneEvent>>
          /\ \A i \in 1..Len(Lines) :
                IsIgnorable(i) => events = Scan(RemoveAt(Lines, i)) \o <<DoneEvent>>
          /\ \A pos \in 0..Len(Lines), l \in IgnorableLines :
                events = Scan(InsertAt(Lines, pos, l)) \o <<DoneEvent>>

\* C12 witness: a finished call whose text has a non-blank line without the
\* prefix between two lines that each yielded an event.
IgnoredLinesNeutralWitness ==
    /\ gpc = "done"
    /\ Len(Lines) = 3
    /\ IsIgnorable(2)
    /\ Trimmed(2) # <<>>
    /\ EventsOf(1) # {}
    /\ EventsOf(3) # {}
    /\ Len(events) = 3

\* The upstream did not deliver a complete body with a success status.
GateClosed ==
    \/ ~apiKeySet
    \/ ~upstreamChat.sent
    \/ upstreamChat.status \notin 200..299
    \/ ~upstreamChat.readable

\* C16: generate_stream gates the relay on upstream success. With an empty
\* api key no request is sent and the call fails; whenever the key is empty,
\* the request fails, the status is not a success or the body is unreadable,
\* the call never reaches the stream, returns an error and emits no event,
\* not even [DONE]; events exist only after the complete body was received
\* with a success status, and the finished sequence ends with [DONE].
UpstreamGate ==
    /\ ~apiKeySet =>
          /\ gpc \in {"idle", "failed"}
          /\ gpc = "failed" =>
                gResult = Some(ApiErr(500, "ALCHEMYST_API_KEY is not configured", 0))
    /\ GateClosed =>
          /\ gpc \notin {"stream", "done"}
          /\ events = <<>>
          /\ is_some(gResult) => gpc = "failed" /\ unwrap(gResult).status # 200
    /\ gpc = "failed" => GateClosed /\ is_some(gResult) /\ events = <<>>
    /\ (events # <<>> \/ gpc \in {"stream", "done"}) =>
          /\ ~GateClosed
          /\ response_text = upstreamChat.body
          /\ gResult = Some(OkJson(<<>>))
    /\ gpc = "done" => events[Len(events)] = DoneEvent

\* C16 witness: the key is set and the request was sent, the upstream
\* answered 503 with a body that holds frames, and the call has failed with
\* that status without emitting anything.
UpstreamGateWitness ==
    /\ gpc = "failed"
    /\ apiKeySet
    /\ upstreamChat.sent
    /\ upstreamChat.readable
    /\ upstreamChat.status = 503
    /\ upstreamChat.body # <<>>
    /\ unwrap(gResult).status = 503
    /\ events = <<>>

====
